---- MODULE Spec2Model ----
(***************************************************************************)
(* Deposit settlement and balance reconciliation of the blackgem backend.  *)
(*                                                                         *)
(* The store holds three relations (app/models.py): users (balance),       *)
(* web3_deposit_addresses and transactions.  Every handler works through   *)
(* an ORM session: a query reads committed rows, attribute assignments     *)
(* stay in the session, and commit() flushes them as                       *)
(* UPDATE ... WHERE id = <primary key> / INSERT statements.  A step of the *)
(* model is one store round trip (a query, or a flush+commit), so that     *)
(* several server processes working on the same store interleave exactly   *)
(* at those points.  Each engine is one process running                    *)
(* Web3Service.monitor_deposits; the process API serves the                *)
(* /deposit/expire request; each worker is one process serving one         *)
(* withdrawal request at a time.  A request's session loads the user row   *)
(* when the request is authenticated and writes back what it computed from *)
(* that copy.                                                              *)
(*                                                                         *)
(* Time is counted in hours; the clock moves in steps of half a TTL.       *)
(***************************************************************************)
EXTENDS Integers, Sequences, FiniteSets, TLC

\* ---------------------------------------------------------------- bounds
NEngines == 2
NUsers == 1
MaxAddrs == 2
MaxTime == 36
MaxTxEdits == 2
NAddrValues == 2
NWorkers == 2
MaxWithdrawals == 2
MaxResends == 1
FrameAddrs == 1
FrameWithdrawals == 1
MaxStoreErrors == 1

\* ------------------------------------------------------ program constants
TTL_HOURS == 24
min_deposit == 10
max_deposit == 100000
min_withdrawal == 10
max_withdrawal == 100000
min_payment_withdrawal == 5

TimeStep == TTL_HOURS \div 2

Engines == 1..NEngines
API == 0
Procs == Engines \cup {API}
Users == 1..NUsers

NONE == -1

\* The networks a request may name, and the amounts it may carry.
NetworkInputs == {"TRC20", "bep20", "DOGE"}
AmountInputs == {0, min_deposit}

\* The strings generate_deposit_address can draw, per network.
AddrValues == 1..NAddrValues

\* What an on-chain balanceOf call can produce: a balance, or an exception.
ERR == -2
OracleOutcomes == {ERR, 0, min_deposit, 2 * min_deposit}

\* The processes that serve withdrawal requests.
Workers == 1..NWorkers

\* The amounts a withdrawal request may carry, and the balances an admin
\* correction may write.
WithdrawalAmountInputs == {0, min_withdrawal, 2 * min_withdrawal}
AdminBalanceInputs == {0, min_withdrawal}

\* The arguments a direct call of check_withdrawal_eligibility may carry.
EligibilityAmountInputs ==
    {0, min_withdrawal, 2 * min_withdrawal, max_withdrawal + 1}
EligibilityBalanceInputs == {0, min_withdrawal, 2 * min_withdrawal}

\* What a broadcast can produce: a transaction hash, or an error (the send
\* wrappers turn every exception into an error result).
TX_HASH == "0xhash"
SEND_ERR == "send error"
SendOutcomes == {TX_HASH, SEND_ERR}

\* None in a column or a field that otherwise holds a string.
NULL == "null"

VARIABLES
    now,        \* datetime.utcnow(), in hours
    balance,    \* users.balance, by user id
    addrs,      \* web3_deposit_addresses, a sequence indexed by id
    txs,        \* transactions, a function from the ids of the live rows
    nextTxId,   \* the transactions id sequence
    pc,         \* where each process stands in its handler
    expired_addresses,  \* expire_deposit_addresses: the rows its query returned
    pending_addresses,  \* monitor_deposits: the rows still to visit in this tick
    cur,        \* monitor_deposits: the row last polled and what the loop's locals
                \* hold for it; cleared once its settlement is committed
    credited,   \* history: how many times each address's amount was added
    txEdits,    \* history: number of transaction-endpoint writes so far
    req,        \* the request each worker is serving: its inputs, what its
                \* session has loaded, and the response of its last request
    debited,    \* history: how many times each withdrawal's amount was taken
                \* from the balance
    sent,       \* history: how many broadcasts went out for each withdrawal
    adminSets,  \* history: the balances written by admin corrections
    session     \* monitor_deposits: the state of the session the engine keeps
                \* for all its ticks, and (history) the store errors it met

vars == <<now, balance, addrs, txs, nextTxId, pc, expired_addresses,
          pending_addresses, cur, credited, txEdits, req, debited, sent,
          adminSets, session>>

engineVars == <<pc, expired_addresses, pending_addresses, cur, session>>

wdVars == <<req, debited, sent, adminSets>>

\* A session as sessionmaker hands it out.
NewSession == [state |-> "active", errors |-> 0]

NoCur == [id |-> NONE, completed_at |-> NONE, user_balance |-> NONE,
          observed |-> NONE, failed |-> FALSE]

AddrIds == DOMAIN addrs
TxIds == DOMAIN txs

\* str.upper() on the network names that occur.
Upper(network) ==
    CASE network = "bep20" -> "BEP20"
      [] network = "trc20" -> "TRC20"
      [] OTHER -> network

\* The networks generate_deposit_address accepts; it raises ValueError for
\* any other.
KnownNetwork(network) == Upper(network) \in {"TRC20", "BEP20"}

\* Web3Service.convert_usdt_to_usd
convert_usdt_to_usd(usdt_amount) == usdt_amount

\* Web3Service.get_usdt_balance_trc20 / get_usdt_balance_bep20: the result of
\* the contract call, or 0.0 when the call raised.
get_usdt_balance(outcome) == IF outcome = ERR THEN 0 ELSE outcome

\* The transactions that reference deposit address a.
TxOf(a) == {t \in TxIds : txs[t].deposit_address_id = a}

\* A worker between two requests; result is the response of the last one.
IdleReq(result) ==
    [pc |-> "idle", user_id |-> NONE, balance |-> NONE, id |-> NONE,
     network |-> NULL, amount |-> NONE, send |-> NULL, result |-> result]

\* The withdrawal transactions (web3 "withdrawal" and payments "withdraw").
WithdrawalIds == DOMAIN debited

Init ==
    /\ now = 0
    /\ balance = [u \in Users |-> 0]
    /\ addrs = <<>>
    /\ txs = <<>>
    /\ nextTxId = 1
    /\ pc = [p \in Procs |-> "idle"]
    /\ expired_addresses = [p \in Procs |-> {}]
    /\ pending_addresses = [e \in Engines |-> {}]
    /\ cur = [e \in Engines |-> NoCur]
    /\ credited = <<>>
    /\ txEdits = 0
    /\ req = [w \in Workers |-> IdleReq(NULL)]
    /\ debited = <<>>
    /\ sent = <<>>
    /\ adminSets = {}
    /\ session = [e \in Engines |-> NewSession]

\* The clock.
AdvanceTime ==
    /\ now + TimeStep <= MaxTime
    /\ now' = now + TimeStep
    /\ UNCHANGED <<balance, addrs, txs, nextTxId, engineVars, credited, txEdits, wdVars>>

\* Web3Service.generate_deposit_address(network): a random string behind a
\* prefix that depends on the network ("T" or "0x").
generate_deposit_address(network) ==
    {<<Upper(network), v>> : v \in AddrValues}

\* A row that keeps the network as the caller wrote it.
InsertDepositAddressAsSent(user_id, amount, network) ==
    /\ Len(addrs) < MaxAddrs
    /\ KnownNetwork(network)
    /\ \E address \in generate_deposit_address(network) :
        /\ \A a \in AddrIds : addrs[a].address # address
        /\ addrs' = Append(addrs, [user_id |-> user_id,
                               address |-> address,
                               network |-> network,
                               amount |-> amount,
                               status |-> "pending",
                               expires_at |-> now + TTL_HOURS,
                               created_at |-> now,
                               completed_at |-> NONE])
    /\ credited' = Append(credited, 0)

\* Web3Service.create_deposit_address(user_id, amount, network): the row it
\* inserts.  generate_deposit_address raises ValueError for an unknown network
\* before anything is added to the session.
InsertDepositAddress(user_id, amount, network) ==
    /\ Len(addrs) < MaxAddrs
    /\ KnownNetwork(network)
    /\ \E address \in generate_deposit_address(network) :
        \* address is UNIQUE: a duplicate makes commit() raise, and the
        \* handler rolls back and re-raises.
        /\ \A a \in AddrIds : addrs[a].address # address
        /\ addrs' = Append(addrs, [user_id |-> user_id,
                               address |-> address,
                               network |-> Upper(network),
                               amount |-> amount,
                               status |-> "pending",
                               expires_at |-> now + TTL_HOURS,
                               created_at |-> now,
                               completed_at |-> NONE])
    /\ credited' = Append(credited, 0)

\* The service operation, called directly.
create_deposit_address ==
    \E user_id \in Users, amount \in AmountInputs, network \in NetworkInputs :
        /\ InsertDepositAddress(user_id, amount, network)
        /\ UNCHANGED <<now, balance, txs, nextTxId, engineVars, txEdits, wdVars>>

\* POST /deposit/create: the router validates, then calls the service.
create_web3_deposit ==
    \E user_id \in Users, amount \in AmountInputs, network \in NetworkInputs :
        /\ network \in {"TRC20", "BEP20"}
        /\ ~ (amount < min_deposit)
        /\ ~ (amount > max_deposit)
        /\ InsertDepositAddress(user_id, amount, network)
        /\ UNCHANGED <<now, balance, txs, nextTxId, engineVars, txEdits, wdVars>>

\* The filter of expire_deposit_addresses' query.
IsExpiredPending(a) ==
    addrs[a].status = "pending" /\ addrs[a].expires_at < now

\* The filter of monitor_deposits' query.
IsLivePending(a) ==
    addrs[a].status = "pending" /\ addrs[a].expires_at > now

\* Where a process goes once expire_deposit_addresses has returned: the engine
\* goes on with its tick, the request handler is done.
AfterSweep(p) == IF p \in Engines THEN "query" ELSE "idle"

\* expire_deposit_addresses, first half: db.query(...).all().  Called by the
\* engine at the start of each tick and by POST /deposit/expire; it opens a
\* session of its own either way.  With nothing selected the commit writes
\* nothing and the call returns 0.
SweepQuery(p) ==
    /\ pc[p] = "idle"
    /\ LET rows == {a \in AddrIds : IsExpiredPending(a)} IN
        IF rows = {}
        THEN /\ pc' = [pc EXCEPT ![p] = AfterSweep(p)]
             /\ UNCHANGED expired_addresses
        ELSE /\ pc' = [pc EXCEPT ![p] = "expire"]
             /\ expired_addresses' = [expired_addresses EXCEPT ![p] = rows]
    /\ UNCHANGED <<now, balance, addrs, txs, nextTxId, pending_addresses, cur,
                   credited, txEdits, wdVars, session>>

\* The rows after the flush of "address.status = 'expired'" for each selected
\* row: UPDATE ... SET status = 'expired' WHERE id = <id>.
ExpireRows(rows) ==
    [a \in AddrIds |-> IF a \in rows
                       THEN [addrs[a] EXCEPT !.status = "expired"]
                       ELSE addrs[a]]

\* "return len(expired_addresses)"
SweepReturn(p) == Cardinality(expired_addresses[p])

\* expire_deposit_addresses, second half: the loop, db.commit() and the return.
SweepCommit(p) ==
    /\ pc[p] = "expire"
    /\ addrs' = ExpireRows(expired_addresses[p])
    /\ expired_addresses' = [expired_addresses EXCEPT ![p] = {}]
    /\ pc' = [pc EXCEPT ![p] = AfterSweep(p)]
    /\ UNCHANGED <<now, balance, txs, nextTxId, pending_addresses, cur,
                   credited, txEdits, wdVars, session>>

\* monitor_deposits: the query for the pending, unexpired rows.  An empty
\* result sends the loop straight to its sleep.
EngineQuery(e) ==
    /\ pc[e] = "query"
    /\ session[e].state = "active"
    /\ LET rows == {a \in AddrIds : IsLivePending(a)} IN
        /\ pending_addresses' = [pending_addresses EXCEPT ![e] = rows]
        /\ pc' = [pc EXCEPT ![e] = IF rows = {} THEN "idle" ELSE "poll"]
    /\ UNCHANGED <<now, balance, addrs, txs, nextTxId, expired_addresses, cur,
                   credited, txEdits, wdVars, session>>

\* A comparison that misses the exact payment.
FundsReceivedStrict(observed, amount) == observed > amount

\* "if balance >= deposit_address.amount"
FundsReceived(observed, amount) == observed >= amount

\* Where the loop goes after row a: the next row, or the sleep.
AfterRow(e, a) == IF pending_addresses[e] \ {a} = {} THEN "idle" ELSE "poll"

\* monitor_deposits, one row of the loop up to the commit: the balance call,
\* the comparison and, on a match, the assignments to the row and the query
\* for the owner.  The rows come in no stated order.
EnginePoll(e) ==
    /\ pc[e] = "poll"
    /\ \E a \in pending_addresses[e], outcome \in OracleOutcomes :
        LET observed == get_usdt_balance(outcome) IN
        IF FundsReceived(observed, addrs[a].amount)
        THEN /\ cur' = [cur EXCEPT ![e] =
                          [id |-> a,
                           completed_at |-> now,
                           user_balance |-> balance[addrs[a].user_id],
                           observed |-> observed,
                           failed |-> (outcome = ERR)]]
             /\ pc' = [pc EXCEPT ![e] = "commit"]
             /\ UNCHANGED pending_addresses
        ELSE /\ cur' = [cur EXCEPT ![e] =
                          [NoCur EXCEPT !.id = a,
                                        !.observed = observed,
                                        !.failed = (outcome = ERR)]]
             /\ pending_addresses' = [pending_addresses EXCEPT ![e] = @ \ {a}]
             /\ pc' = [pc EXCEPT ![e] = AfterRow(e, a)]
    /\ UNCHANGED <<now, balance, addrs, txs, nextTxId, expired_addresses,
                   credited, txEdits, wdVars, session>>

\* The Transaction monitor_deposits builds for row a.
DepositTransaction(a) ==
    [user_id |-> addrs[a].user_id,
     type |-> "deposit",
     amount |-> addrs[a].amount,
     status |-> "completed",
     provider |-> addrs[a].network,
     network |-> addrs[a].network,
     transaction_hash |-> NULL,
     notes |-> <<"Auto-verified from deposit address", NULL>>,
     deposit_address_id |-> a]

\* A credit of what was seen on chain instead of what was expected.
UsdAmountObserved(e) == convert_usdt_to_usd(cur[e].observed)

\* "usd_amount = self.convert_usdt_to_usd(deposit_address.amount)"
UsdAmount(e) == convert_usdt_to_usd(addrs[cur[e].id].amount)

\* "user.balance += usd_amount", on the balance the session read.
CreditedBalance(e) == cur[e].user_balance + UsdAmount(e)

\* The row after the flush of status and completed_at.
CompleteRow(a, completed_at) ==
    [addrs[a] EXCEPT !.status = "completed", !.completed_at = completed_at]

\* monitor_deposits: db_session.add(transaction); db_session.commit() for the
\* matched row: one store transaction that updates the row by id, updates the
\* owner's balance ("if user:"; rows of users are never deleted) and inserts
\* the Transaction.
EngineCommit(e) ==
    /\ pc[e] = "commit"
    /\ LET a == cur[e].id
           u == addrs[a].user_id IN
        /\ addrs' = [addrs EXCEPT ![a] = CompleteRow(a, cur[e].completed_at)]
        /\ txs' = [t \in TxIds \cup {nextTxId} |->
                     IF t = nextTxId THEN DepositTransaction(a) ELSE txs[t]]
        /\ nextTxId' = nextTxId + 1
        /\ balance' = IF u \in DOMAIN balance
                      THEN [balance EXCEPT ![u] = CreditedBalance(e)]
                      ELSE balance
        /\ credited' = [credited EXCEPT ![a] = @ + 1]
        /\ pending_addresses' = [pending_addresses EXCEPT ![e] = @ \ {a}]
        /\ pc' = [pc EXCEPT ![e] = AfterRow(e, a)]
        /\ cur' = [cur EXCEPT ![e] = NoCur]
    /\ UNCHANGED <<now, expired_addresses, txEdits, wdVars, session>>

Next ==
    \/ AdvanceTime
    \/ create_web3_deposit
    \/ \E p \in Procs : SweepQuery(p)
    \/ \E p \in Procs : SweepCommit(p)
    \/ \E e \in Engines : EngineQuery(e)
    \/ \E e \in Engines : EnginePoll(e)
    \/ \E e \in Engines : EngineCommit(e)

Spec == Init /\ [][Next]_vars

\* The status strings a caller of the transaction endpoints may send.
StatusInputs == {"pending", "completed", "failed"}

\* PUT /api/transactions/{transaction_id}?status=...: the owner sets the
\* status of one of their transactions; the string is stored as sent.
update_transaction_status ==
    /\ txEdits < MaxTxEdits
    /\ \E current_user \in Users, transaction_id \in TxIds, status \in StatusInputs :
        /\ txs[transaction_id].user_id = current_user
        /\ txs' = [txs EXCEPT ![transaction_id].status = status]
    /\ txEdits' = txEdits + 1
    /\ UNCHANGED <<now, balance, addrs, nextTxId, engineVars, credited, wdVars>>

\* DELETE /api/transactions/{transaction_id}: the owner deletes the row.
delete_transaction ==
    /\ txEdits < MaxTxEdits
    /\ \E current_user \in Users, transaction_id \in TxIds :
        /\ txs[transaction_id].user_id = current_user
        /\ txs' = [t \in TxIds \ {transaction_id} |-> txs[t]]
    /\ txEdits' = txEdits + 1
    /\ UNCHANGED <<now, balance, addrs, nextTxId, engineVars, credited, wdVars>>

\* PUT /api/admin/transactions/{transaction_id}: an admin sets the status of
\* any transaction to one of the three valid statuses.
update_transaction ==
    /\ txEdits < MaxTxEdits
    /\ \E transaction_id \in TxIds, status \in StatusInputs :
        /\ status \in {"pending", "completed", "failed"}
        /\ txs' = [txs EXCEPT ![transaction_id].status = status]
    /\ txEdits' = txEdits + 1
    /\ UNCHANGED <<now, balance, addrs, nextTxId, engineVars, credited, wdVars>>

\* One engine process together with the transaction endpoints.
NextTx ==
    \/ AdvanceTime
    \/ create_web3_deposit
    \/ SweepQuery(1)
    \/ SweepCommit(1)
    \/ EngineQuery(1)
    \/ EnginePoll(1)
    \/ EngineCommit(1)
    \/ update_transaction_status
    \/ delete_transaction
    \/ update_transaction

SpecTx == Init /\ [][NextTx]_vars

\* One engine process, the sweep endpoint, and deposit addresses created
\* through the router or by a direct call of the service.
NextSingle ==
    \/ AdvanceTime
    \/ create_deposit_address
    \/ create_web3_deposit
    \/ \E p \in {API, 1} : SweepQuery(p)
    \/ \E p \in {API, 1} : SweepCommit(p)
    \/ EngineQuery(1)
    \/ EnginePoll(1)
    \/ EngineCommit(1)

SpecSingle == Init /\ [][NextSingle]_vars

\* ------------------------------------------------------------ withdrawals

\* Web3Service.get_network_info(network): the entry of the table for
\* network.upper(), or the empty dict.
get_network_info(network) ==
    IF Upper(network) \in {"TRC20", "BEP20"}
    THEN [k \in {"min_withdrawal", "max_withdrawal"} |->
            IF k = "min_withdrawal" THEN min_withdrawal ELSE max_withdrawal]
    ELSE [k \in {} |-> 0]

\* get_platform_balance_trc20 / get_platform_balance_bep20 behind the two
\* branches on network.upper(); platform_balance stays 0 for any other network.
get_platform_balance(network, outcome) ==
    IF Upper(network) \in {"TRC20", "BEP20"} THEN get_usdt_balance(outcome) ELSE 0

\* The dict check_withdrawal_eligibility returns.  The message of the last
\* check carries the platform balance that was read.
Ineligible(error, platform_balance) ==
    [eligible |-> FALSE, error |-> error, platform_balance |-> platform_balance]

\* An eligibility check that lets a user withdraw more than the balance.
check_withdrawal_eligibility_no_balance(network, amount, user_balance, outcome) ==
    LET network_info == get_network_info(network)
        platform_balance == get_platform_balance(network, outcome) IN
    IF DOMAIN network_info = {} THEN Ineligible("Invalid network", NONE)
    ELSE IF amount < network_info["min_withdrawal"]
    THEN Ineligible("Amount too low", NONE)
    ELSE IF amount > network_info["max_withdrawal"]
    THEN Ineligible("Amount too high", NONE)
    ELSE IF amount > platform_balance
    THEN Ineligible("Insufficient platform balance", platform_balance)
    ELSE [eligible |-> TRUE, error |-> NULL, platform_balance |-> platform_balance]

\* An eligibility check that looks at the platform before the user.
check_withdrawal_eligibility_platform_first(network, amount, user_balance, outcome) ==
    LET network_info == get_network_info(network)
        platform_balance == get_platform_balance(network, outcome) IN
    IF DOMAIN network_info = {} THEN Ineligible("Invalid network", NONE)
    ELSE IF amount < network_info["min_withdrawal"]
    THEN Ineligible("Amount too low", NONE)
    ELSE IF amount > network_info["max_withdrawal"]
    THEN Ineligible("Amount too high", NONE)
    ELSE IF amount > platform_balance
    THEN Ineligible("Insufficient platform balance", platform_balance)
    ELSE IF amount > user_balance
    THEN Ineligible("Insufficient balance", NONE)
    ELSE [eligible |-> TRUE, error |-> NULL, platform_balance |-> platform_balance]

\* Web3Service.check_withdrawal_eligibility(network, amount, user_balance);
\* outcome is what the platform balance call produces if it is reached.
check_withdrawal_eligibility(network, amount, user_balance, outcome) ==
    LET network_info == get_network_info(network)
        platform_balance == get_platform_balance(network, outcome) IN
    IF DOMAIN network_info = {} THEN Ineligible("Invalid network", NONE)
    ELSE IF amount < network_info["min_withdrawal"]
    THEN Ineligible("Amount too low", NONE)
    ELSE IF amount > network_info["max_withdrawal"]
    THEN Ineligible("Amount too high", NONE)
    ELSE IF amount > user_balance
    THEN Ineligible("Insufficient balance", NONE)
    ELSE IF amount > platform_balance
    THEN Ineligible("Insufficient platform balance", platform_balance)
    ELSE [eligible |-> TRUE, error |-> NULL, platform_balance |-> platform_balance]

\* Web3Service.send_usdt_trc20 / send_usdt_bep20: the result dict.
send_usdt(outcome) ==
    IF outcome = SEND_ERR
    THEN [success |-> FALSE, tx_hash |-> NULL, error |-> outcome]
    ELSE [success |-> TRUE, tx_hash |-> outcome, error |-> NULL]

\* The requests that will insert a withdrawal when they get to it.
Inserting == {w \in Workers : req[w].pc \in {"create", "withdraw"}}

\* Room for one more withdrawal.
MayRequest == Cardinality(WithdrawalIds) + Cardinality(Inserting) < MaxWithdrawals

\* The frame of a step that touches neither deposits nor the clock.
depositVars == <<now, addrs, engineVars, credited, txEdits>>

\* txs with row id added, and a history with an entry for it.
InsertTx(id, row) == [t \in TxIds \cup {id} |-> IF t = id THEN row ELSE txs[t]]

WithEntry(history, id, n) ==
    [t \in DOMAIN history \cup {id} |-> IF t = id THEN n ELSE history[t]]

\* get_current_active_user for POST /withdrawal/create: the request's
\* session loads the user row; the body of the request is kept for the
\* handler.
WithdrawalAuth(w) ==
    /\ req[w].pc = "idle"
    /\ MayRequest
    /\ \E current_user \in Users, network \in NetworkInputs,
          amount \in WithdrawalAmountInputs :
        req' = [req EXCEPT ![w] =
                  [IdleReq(NULL) EXCEPT !.pc = "create",
                                        !.user_id = current_user,
                                        !.balance = balance[current_user],
                                        !.network = network,
                                        !.amount = amount]]
    /\ UNCHANGED <<balance, txs, nextTxId, debited, sent, adminSets, depositVars>>

\* The Transaction create_web3_withdrawal builds.
WithdrawalTransaction(w) ==
    [user_id |-> req[w].user_id,
     type |-> "withdrawal",
     amount |-> req[w].amount,
     status |-> "pending",
     provider |-> req[w].network,
     transaction_hash |-> NULL,
     notes |-> <<"Withdrawal fee", NULL>>,
     deposit_address_id |-> NONE]

\* create_web3_withdrawal, the handler: the network check, the eligibility
\* check on the balance the session loaded and, if both pass, the insert of
\* the pending Transaction and its commit.  The balance is not written.
create_web3_withdrawal(w) ==
    /\ req[w].pc = "create"
    /\ \E outcome \in OracleOutcomes :
        LET eligibility == check_withdrawal_eligibility(
                               req[w].network, req[w].amount, req[w].balance,
                               outcome) IN
        IF req[w].network \notin {"TRC20", "BEP20"}
        THEN /\ req' = [req EXCEPT ![w] = IdleReq("Invalid network")]
             /\ UNCHANGED <<txs, nextTxId, debited, sent>>
        ELSE IF ~ eligibility.eligible
        THEN /\ req' = [req EXCEPT ![w] = IdleReq(eligibility.error)]
             /\ UNCHANGED <<txs, nextTxId, debited, sent>>
        ELSE /\ txs' = InsertTx(nextTxId, WithdrawalTransaction(w))
             /\ nextTxId' = nextTxId + 1
             /\ debited' = WithEntry(debited, nextTxId, 0)
             /\ sent' = WithEntry(sent, nextTxId, 0)
             /\ req' = [req EXCEPT ![w] = IdleReq("pending")]
    /\ UNCHANGED <<balance, adminSets, depositVars>>

\* get_current_active_user for POST /withdrawal/process/{withdrawal_id}.
ProcessAuth(w) ==
    /\ req[w].pc = "idle"
    /\ \E current_user \in Users, withdrawal_id \in WithdrawalIds \cup {nextTxId} :
        req' = [req EXCEPT ![w] =
                  [IdleReq(NULL) EXCEPT !.pc = "find",
                                        !.user_id = current_user,
                                        !.balance = balance[current_user],
                                        !.id = withdrawal_id]]
    /\ UNCHANGED <<balance, txs, nextTxId, debited, sent, adminSets, depositVars>>

\* The filter of process_web3_withdrawal's query.
IsPendingWithdrawal(t, user_id) ==
    /\ t \in TxIds
    /\ txs[t].user_id = user_id
    /\ txs[t].type = "withdrawal"
    /\ txs[t].status = "pending"

\* process_web3_withdrawal: the query for the pending withdrawal; 404 when
\* there is none.
ProcessFind(w) ==
    /\ req[w].pc = "find"
    /\ IF IsPendingWithdrawal(req[w].id, req[w].user_id)
       THEN req' = [req EXCEPT ![w].pc = "check",
                               ![w].network = txs[req[w].id].provider,
                               ![w].amount = txs[req[w].id].amount]
       ELSE req' = [req EXCEPT ![w] = IdleReq("Withdrawal not found")]
    /\ UNCHANGED <<balance, txs, nextTxId, debited, sent, adminSets, depositVars>>

\* The row after the flush of the assignments to status, transaction_hash
\* and notes: UPDATE transactions SET ... WHERE id = <id>.
FailRow(t, prefix, error) ==
    [txs[t] EXCEPT !.status = "failed", !.notes = <<prefix, error>>]

CompleteWithdrawalRow(t, tx_hash) ==
    [txs[t] EXCEPT !.status = "completed",
                   !.transaction_hash = tx_hash,
                   !.notes = <<"Withdrawal completed", NULL>>]

\* process_web3_withdrawal: the second eligibility check, on the balance the
\* session loaded, and then either the commit of the failure or the
\* broadcast.
ProcessCheck(w) ==
    /\ req[w].pc = "check"
    /\ \E outcome \in OracleOutcomes, sending \in SendOutcomes :
        LET eligibility == check_withdrawal_eligibility(
                               req[w].network, req[w].amount, req[w].balance,
                               outcome)
            result == send_usdt(sending) IN
        IF ~ eligibility.eligible
        THEN /\ txs' = [txs EXCEPT ![req[w].id] =
                          FailRow(req[w].id, "Processing failed", eligibility.error)]
             /\ req' = [req EXCEPT ![w] = IdleReq(eligibility.error)]
             /\ UNCHANGED sent
        ELSE /\ sent' = [sent EXCEPT ![req[w].id] =
                           IF result.success THEN @ + 1 ELSE @]
             /\ req' = [req EXCEPT ![w].pc = "commit", ![w].send = result]
             /\ UNCHANGED txs
    /\ UNCHANGED <<balance, nextTxId, debited, adminSets, depositVars>>

\* A debit computed by the store on the balance it holds.
DebitedBalanceInStore(w) == balance[req[w].user_id] - req[w].amount

\* "current_user.balance -= withdrawal.amount", on the balance the session
\* loaded.
DebitedBalance(w) == req[w].balance - req[w].amount

\* process_web3_withdrawal: the commit after the broadcast.  A success writes
\* the row and the debited balance in one store transaction; a failure writes
\* the row and raises inside the try block.
ProcessCommit(w) ==
    /\ req[w].pc = "commit"
    /\ IF req[w].send.success
       THEN /\ txs' = [txs EXCEPT ![req[w].id] =
                         CompleteWithdrawalRow(req[w].id, req[w].send.tx_hash)]
            /\ balance' = [balance EXCEPT ![req[w].user_id] = DebitedBalance(w)]
            /\ debited' = [debited EXCEPT ![req[w].id] = @ + 1]
            /\ req' = [req EXCEPT ![w] = IdleReq("success")]
       ELSE /\ txs' = [txs EXCEPT ![req[w].id] =
                         FailRow(req[w].id, "Withdrawal failed", req[w].send.error)]
            /\ req' = [req EXCEPT ![w].pc = "except"]
            /\ UNCHANGED <<balance, debited>>
    /\ UNCHANGED <<nextTxId, sent, adminSets, depositVars>>

\* An error path that gives the amount back to the balance.
ProcessExceptRefund(w) ==
    /\ req[w].pc = "except"
    /\ txs' = [txs EXCEPT ![req[w].id] =
                 FailRow(req[w].id, "Processing error", req[w].send.error)]
    /\ balance' = [balance EXCEPT ![req[w].user_id] = @ + req[w].amount]
    /\ req' = [req EXCEPT ![w] = IdleReq("Withdrawal processing error")]
    /\ UNCHANGED <<nextTxId, debited, sent, adminSets, depositVars>>

\* process_web3_withdrawal: "except Exception" catches the HTTPException the
\* failure branch raised, writes the row again and commits; str(e) carries
\* the detail of the exception.
ProcessExcept(w) ==
    /\ req[w].pc = "except"
    /\ txs' = [txs EXCEPT ![req[w].id] =
                 FailRow(req[w].id, "Processing error", req[w].send.error)]
    /\ req' = [req EXCEPT ![w] = IdleReq("Withdrawal processing error")]
    /\ UNCHANGED <<balance, nextTxId, debited, sent, adminSets, depositVars>>

\* get_current_active_user for POST /api/payments/withdrawal.
PaymentAuth(w) ==
    /\ req[w].pc = "idle"
    /\ MayRequest
    /\ \E current_user \in Users, amount \in WithdrawalAmountInputs :
        req' = [req EXCEPT ![w] =
                  [IdleReq(NULL) EXCEPT !.pc = "withdraw",
                                        !.user_id = current_user,
                                        !.balance = balance[current_user],
                                        !.network = "TRC20",
                                        !.amount = amount]]
    /\ UNCHANGED <<balance, txs, nextTxId, debited, sent, adminSets, depositVars>>

\* The Transaction payments.create_withdrawal builds.
PaymentTransaction(w) ==
    [user_id |-> req[w].user_id,
     type |-> "withdraw",
     amount |-> req[w].amount,
     status |-> "pending",
     provider |-> NULL,
     transaction_hash |-> NULL,
     notes |-> <<"Withdrawal to network", req[w].network>>,
     deposit_address_id |-> NONE]

\* payments.create_withdrawal, the handler: the two checks, then the insert
\* of the pending Transaction and the debit in one commit.
create_withdrawal(w) ==
    /\ req[w].pc = "withdraw"
    /\ IF req[w].amount > req[w].balance
       THEN /\ req' = [req EXCEPT ![w] = IdleReq("Insufficient balance")]
            /\ UNCHANGED <<balance, txs, nextTxId, debited, sent>>
       ELSE IF req[w].amount < min_payment_withdrawal
       THEN /\ req' = [req EXCEPT ![w] = IdleReq("Minimum withdrawal amount")]
            /\ UNCHANGED <<balance, txs, nextTxId, debited, sent>>
       ELSE /\ txs' = InsertTx(nextTxId, PaymentTransaction(w))
            /\ nextTxId' = nextTxId + 1
            /\ balance' = [balance EXCEPT ![req[w].user_id] = DebitedBalance(w)]
            /\ debited' = WithEntry(debited, nextTxId, 1)
            /\ sent' = WithEntry(sent, nextTxId, 0)
            /\ req' = [req EXCEPT ![w] = IdleReq("pending")]
    /\ UNCHANGED <<adminSets, depositVars>>

\* PUT /api/admin/users/{user_id} with a balance in the body: the row is
\* looked up and the balance is overwritten with the one sent.
update_user ==
    /\ \E user_id \in Users, new_balance \in AdminBalanceInputs :
        /\ balance' = [balance EXCEPT ![user_id] = new_balance]
        /\ adminSets' = adminSets \cup {new_balance}
    /\ UNCHANGED <<txs, nextTxId, req, debited, sent, depositVars>>

\* The withdrawal requests of NWorkers processes and the admin correction.
NextW ==
    \/ update_user
    \/ \E w \in Workers : WithdrawalAuth(w)
    \/ \E w \in Workers : create_web3_withdrawal(w)
    \/ \E w \in Workers : ProcessAuth(w)
    \/ \E w \in Workers : ProcessFind(w)
    \/ \E w \in Workers : ProcessCheck(w)
    \/ \E w \in Workers : ProcessCommit(w)
    \/ \E w \in Workers : ProcessExcept(w)
    \/ \E w \in Workers : PaymentAuth(w)
    \/ \E w \in Workers : create_withdrawal(w)

SpecW == Init /\ [][NextW]_vars

\* Each worker is about to call check_withdrawal_eligibility with arguments
\* of its own.
InitElig ==
    /\ now = 0
    /\ balance = [u \in Users |-> 0]
    /\ addrs = <<>>
    /\ txs = <<>>
    /\ nextTxId = 1
    /\ pc = [p \in Procs |-> "idle"]
    /\ expired_addresses = [p \in Procs |-> {}]
    /\ pending_addresses = [e \in Engines |-> {}]
    /\ cur = [e \in Engines |-> NoCur]
    /\ credited = <<>>
    /\ txEdits = 0
    /\ req \in [Workers ->
                 {[IdleReq(NULL) EXCEPT !.pc = "eligibility",
                                        !.network = network,
                                        !.amount = amount,
                                        !.balance = user_balance] :
                    network \in NetworkInputs,
                    amount \in EligibilityAmountInputs,
                    user_balance \in EligibilityBalanceInputs}]
    /\ debited = <<>>
    /\ sent = <<>>
    /\ adminSets = {}
    /\ session = [e \in Engines |-> NewSession]

\* The call itself: the dict it returns is the worker's result.
check_withdrawal_eligibility_call(w) ==
    /\ req[w].pc = "eligibility"
    /\ \E outcome \in OracleOutcomes :
        req' = [req EXCEPT ![w] =
                  IdleReq(check_withdrawal_eligibility(
                              req[w].network, req[w].amount, req[w].balance,
                              outcome))]
    /\ UNCHANGED <<balance, txs, nextTxId, debited, sent, adminSets, depositVars>>

NextElig == \E w \in Workers : check_withdrawal_eligibility_call(w)

SpecElig == InitElig /\ [][NextElig]_vars

\* One engine process, one worker serving web3 withdrawals and the admin
\* correction, all on the balance of the same user.
NextBal ==
    \/ create_web3_deposit
    \/ SweepQuery(1)
    \/ EngineQuery(1)
    \/ EnginePoll(1)
    \/ EngineCommit(1)
    \/ update_user
    \/ WithdrawalAuth(1)
    \/ create_web3_withdrawal(1)
    \/ ProcessAuth(1)
    \/ ProcessFind(1)
    \/ ProcessCheck(1)
    \/ ProcessCommit(1)
    \/ ProcessExcept(1)

SpecBal == Init /\ [][NextBal]_vars

\* ------------------------------------------- deposit address requests

\* The rows of users: the users who act above, and one more account.
Accounts == 1..(NUsers + 1)

InitAccounts ==
    /\ now = 0
    /\ balance = [u \in Accounts |-> 0]
    /\ addrs = <<>>
    /\ txs = <<>>
    /\ nextTxId = 1
    /\ pc = [p \in Procs |-> "idle"]
    /\ expired_addresses = [p \in Procs |-> {}]
    /\ pending_addresses = [e \in Engines |-> {}]
    /\ cur = [e \in Engines |-> NoCur]
    /\ credited = <<>>
    /\ txEdits = 0
    /\ req = [w \in Workers |-> IdleReq(NULL)]
    /\ debited = <<>>
    /\ sent = <<>>
    /\ adminSets = {}
    /\ session = [e \in Engines |-> NewSession]

\* The calls of create_deposit_address that will insert a row when they get
\* to it.
Issuing == {w \in Workers : req[w].pc = "issue"}

\* A caller enters Web3Service.create_deposit_address(user_id, amount,
\* network) with arguments of its own.
IssueCall(w) ==
    /\ req[w].pc = "idle"
    /\ Len(addrs) + Cardinality(Issuing) < MaxAddrs
    /\ \E user_id \in DOMAIN balance, amount \in AmountInputs,
          network \in NetworkInputs :
        req' = [req EXCEPT ![w] =
                  [IdleReq(NULL) EXCEPT !.pc = "issue",
                                        !.user_id = user_id,
                                        !.network = network,
                                        !.amount = amount]]
    /\ UNCHANGED <<balance, txs, nextTxId, debited, sent, adminSets, depositVars>>

\* Web3Service.create_deposit_address, the body of the call: one address is
\* generated and the row is committed.  An unknown network raises ValueError
\* before anything is stored; an address that is already stored makes the
\* commit raise IntegrityError.  Either exception is rolled back and raised
\* again to the caller; the id of the row is returned otherwise.
create_deposit_address_call(w) ==
    /\ req[w].pc = "issue"
    /\ \/ /\ ~ KnownNetwork(req[w].network)
          /\ req' = [req EXCEPT ![w] = IdleReq("ValueError")]
          /\ UNCHANGED <<addrs, credited>>
       \/ /\ InsertDepositAddress(req[w].user_id, req[w].amount, req[w].network)
          /\ req' = [req EXCEPT ![w] =
                       [IdleReq("created") EXCEPT !.id = Len(addrs) + 1]]
       \/ /\ KnownNetwork(req[w].network)
          /\ \E address \in generate_deposit_address(req[w].network) :
                \E a \in AddrIds : addrs[a].address = address
          /\ req' = [req EXCEPT ![w] = IdleReq("IntegrityError")]
          /\ UNCHANGED <<addrs, credited>>
    /\ UNCHANGED <<now, balance, txs, nextTxId, engineVars, txEdits, debited,
                   sent, adminSets>>

\* What a route answers: the status code and the body (or the detail of the
\* HTTPException).
Response(status_code, body) == [status_code |-> status_code, body |-> body]

\* Web3Service.get_deposit_address_status(address_id): the dict it returns
\* for a stored row.
get_deposit_address_status(address_id) ==
    [id |-> address_id,
     status |-> addrs[address_id].status,
     amount |-> addrs[address_id].amount,
     network |-> addrs[address_id].network,
     address |-> addrs[address_id].address,
     expires_at |-> addrs[address_id].expires_at,
     created_at |-> addrs[address_id].created_at]

\* get_current_active_user for GET /deposit/{address_id}/status.
StatusAuth(w) ==
    /\ req[w].pc = "idle"
    /\ \E current_user \in DOMAIN balance,
          address_id \in AddrIds \cup {Len(addrs) + 1} :
        req' = [req EXCEPT ![w] =
                  [IdleReq(NULL) EXCEPT !.pc = "status",
                                        !.user_id = current_user,
                                        !.balance = balance[current_user],
                                        !.id = address_id]]
    /\ UNCHANGED <<balance, txs, nextTxId, debited, sent, adminSets, depositVars>>

\* GET /deposit/{address_id}/status, the handler.  The service raises
\* ValueError for an unknown id (404).  The handler then reads
\* status_data["user_id"]: a missing key raises KeyError, and both KeyError
\* and the HTTPException(403) of the ownership check are raised inside the
\* try block, where "except Exception" answers 500 with str(e).
deposit_address_status(w) ==
    /\ req[w].pc = "status"
    /\ LET address_id == req[w].id IN
        IF address_id \notin AddrIds
        THEN req' = [req EXCEPT ![w] =
                       IdleReq(Response(404, "Deposit address not found"))]
        ELSE LET status_data == get_deposit_address_status(address_id) IN
             IF "user_id" \notin DOMAIN status_data
             THEN req' = [req EXCEPT ![w] = IdleReq(Response(500, "'user_id'"))]
             ELSE IF status_data["user_id"] # req[w].user_id
             THEN req' = [req EXCEPT ![w] = IdleReq(Response(500, "403: Access denied"))]
             ELSE req' = [req EXCEPT ![w] = IdleReq(Response(200, status_data))]
    /\ UNCHANGED <<balance, txs, nextTxId, debited, sent, adminSets, depositVars>>

\* Callers of the service and of the status route, next to the clock and the
\* sweep endpoint.
NextIssue ==
    \/ AdvanceTime
    \/ SweepQuery(API)
    \/ SweepCommit(API)
    \/ \E w \in Workers : IssueCall(w)
    \/ \E w \in Workers : create_deposit_address_call(w)
    \/ \E w \in Workers : StatusAuth(w)
    \/ \E w \in Workers : deposit_address_status(w)

SpecIssue == InitAccounts /\ [][NextIssue]_vars

\* ------------------------------------------------- tx-hash verification

\* Web3Service.verify_transaction_trc20 / verify_transaction_bep20: outcome is
\* what the chain lookup produces for the hash, the amount it moved or an
\* exception; the transfer is verified when the amount is the expected one
\* (to the cent).
verify_transaction(outcome, expected_amount) ==
    IF outcome = ERR
    THEN [verified |-> FALSE, amount |-> NONE]
    ELSE IF outcome # expected_amount
    THEN [verified |-> FALSE, amount |-> NONE]
    ELSE [verified |-> TRUE, amount |-> outcome]

\* get_current_active_user for POST /deposit/verify; the body carries the
\* hash, the network and the amount.
VerifyAuth(w) ==
    /\ req[w].pc = "idle"
    /\ \E current_user \in Users, network \in NetworkInputs,
          amount \in AmountInputs :
        req' = [req EXCEPT ![w] =
                  [pc |-> "deposit", user_id |-> current_user,
                   balance |-> balance[current_user], id |-> NONE,
                   network |-> network, amount |-> amount, send |-> NULL,
                   result |-> NULL, tx_hash |-> TX_HASH]]
    /\ UNCHANGED <<balance, txs, nextTxId, debited, sent, adminSets, depositVars>>

\* The filter of verify_web3_deposit's query.
IsPendingDeposit(t, user_id, network, amount) ==
    /\ txs[t].user_id = user_id
    /\ txs[t].type = "deposit"
    /\ txs[t].status = "pending"
    /\ txs[t].provider = network
    /\ txs[t].amount = amount

\* verify_web3_deposit: the query for a pending deposit, .first() of the rows
\* that match in no stated order; 404 when there is none.
VerifyFind(w) ==
    /\ req[w].pc = "deposit"
    /\ LET rows == {t \in TxIds : IsPendingDeposit(t, req[w].user_id,
                                                   req[w].network, req[w].amount)} IN
        IF rows = {}
        THEN req' = [req EXCEPT ![w] = IdleReq("No pending deposit found")]
        ELSE \E t \in rows : req' = [req EXCEPT ![w].pc = "verify", ![w].id = t]
    /\ UNCHANGED <<balance, txs, nextTxId, debited, sent, adminSets, depositVars>>

\* The row after the flush of status, transaction_hash and notes.
VerifiedRow(t, tx_hash, network) ==
    [txs[t] EXCEPT !.status = "completed",
                   !.transaction_hash = tx_hash,
                   !.notes = <<"Verified on", network>>]

\* "current_user.balance += usd_amount", on the balance the session loaded.
VerifiedBalance(w, amount) == req[w].balance + convert_usdt_to_usd(amount)

\* verify_web3_deposit: the chain lookup and, for a verified transfer, the
\* commit of the row and of the credited balance.
VerifyCommit(w) ==
    /\ req[w].pc = "verify"
    /\ \E outcome \in OracleOutcomes :
        LET verification_result == verify_transaction(outcome, req[w].amount) IN
        IF req[w].network \notin {"TRC20", "BEP20"}
        THEN /\ req' = [req EXCEPT ![w] = IdleReq("Invalid network")]
             /\ UNCHANGED <<balance, txs>>
        ELSE IF verification_result.verified
        THEN /\ txs' = [txs EXCEPT ![req[w].id] =
                          VerifiedRow(req[w].id, req[w].tx_hash, req[w].network)]
             /\ balance' = [balance EXCEPT ![req[w].user_id] =
                              VerifiedBalance(w, verification_result.amount)]
             /\ req' = [req EXCEPT ![w] = IdleReq("verified")]
        ELSE /\ req' = [req EXCEPT ![w] =
                          IdleReq("Transaction verification failed")]
             /\ UNCHANGED <<balance, txs>>
    /\ UNCHANGED <<nextTxId, debited, sent, adminSets, depositVars>>

\* One engine process, the owner's status updates and one worker serving
\* verification requests.
NextVerify ==
    \/ create_web3_deposit
    \/ SweepQuery(1)
    \/ EngineQuery(1)
    \/ EnginePoll(1)
    \/ EngineCommit(1)
    \/ update_transaction_status
    \/ VerifyAuth(1)
    \/ VerifyFind(1)
    \/ VerifyCommit(1)

SpecVerify == Init /\ [][NextVerify]_vars

\* ------------------------------------------------------- store failures

\* str(e) of the exception a failing commit raises.
COMMIT_ERR == "commit error"

\* process_web3_withdrawal: db.commit() after a successful broadcast raises.
\* The store has either discarded the transaction, or applied it before the
\* connection broke; the session is rolled back either way (its pending
\* changes are gone) and "except Exception" takes over.  A withdrawal that was
\* broadcast more than MaxResends times meets no further failure.
ProcessCommitRaises(w) ==
    /\ req[w].pc = "commit"
    /\ req[w].send.success
    /\ sent[req[w].id] <= MaxResends
    /\ \/ UNCHANGED <<txs, balance, debited>>
       \/ /\ txs' = [txs EXCEPT ![req[w].id] =
                       CompleteWithdrawalRow(req[w].id, req[w].send.tx_hash)]
          /\ balance' = [balance EXCEPT ![req[w].user_id] = DebitedBalance(w)]
          /\ debited' = [debited EXCEPT ![req[w].id] = @ + 1]
    /\ req' = [req EXCEPT ![w].pc = "except", ![w].send.error = COMMIT_ERR]
    /\ UNCHANGED <<nextTxId, sent, adminSets, depositVars>>

\* process_web3_withdrawal: the db.commit() of "except Exception" raises as
\* well; the exception leaves the handler and nothing is written.
ProcessExceptRaises(w) ==
    /\ req[w].pc = "except"
    /\ req' = [req EXCEPT ![w] = IdleReq("Internal Server Error")]
    /\ UNCHANGED <<balance, txs, nextTxId, debited, sent, adminSets, depositVars>>

\* One worker serving web3 withdrawals on a store whose commits can fail.
NextFault ==
    \/ update_user
    \/ WithdrawalAuth(1)
    \/ create_web3_withdrawal(1)
    \/ ProcessAuth(1)
    \/ ProcessFind(1)
    \/ ProcessCheck(1)
    \/ ProcessCommit(1)
    \/ ProcessCommitRaises(1)
    \/ ProcessExcept(1)
    \/ ProcessExceptRaises(1)

SpecFault == Init /\ [][NextFault]_vars

\* ----------------------------------------------------- one server process

\* Inside one server process the handlers and the engine's tick are
\* coroutines that never await between their store calls: the event loop runs
\* one request or one tick at a time, from its first query to its response
\* (or to the tick's sleep).
Serial == pc[1] = "idle" /\ pc[API] = "idle" /\ req[1].pc = "idle"

\* One engine, the sweep endpoint, the admin correction and calls of
\* create_deposit_address (for 10 USDT on TRC20), status reads and web3
\* withdrawals in one server process, over two accounts, up to FrameAddrs
\* addresses and FrameWithdrawals withdrawals.
NextFrame ==
    \/ AdvanceTime
    \/ /\ Serial
       /\ Len(addrs) < FrameAddrs
       /\ IssueCall(1)
       /\ req'[1].network = "TRC20"
       /\ req'[1].amount = min_deposit
    \/ create_deposit_address_call(1)
    \/ Serial /\ StatusAuth(1)
    \/ deposit_address_status(1)
    \/ \E p \in {API, 1} : Serial /\ SweepQuery(p)
    \/ \E p \in {API, 1} : SweepCommit(p)
    \/ EngineQuery(1)
    \/ EnginePoll(1)
    \/ EngineCommit(1)
    \/ Serial /\ update_user
    \/ /\ Serial
       /\ Cardinality(WithdrawalIds) < FrameWithdrawals
       /\ WithdrawalAuth(1)
    \/ create_web3_withdrawal(1)
    \/ Serial /\ ProcessAuth(1)
    \/ ProcessFind(1)
    \/ ProcessCheck(1)
    \/ ProcessCommit(1)
    \/ ProcessExcept(1)

SpecFrame == InitAccounts /\ [][NextFrame]_vars

\* ------------------------------------------------------- engine failures

\* The session after a store error; state is how the error left it.
Failed(e, state) ==
    [session EXCEPT ![e] = [state |-> state, errors |-> @.errors + 1]]

\* expire_deposit_addresses raises inside the engine's tick (its commit
\* fails): the function rolls its own session back and re-raises, and
\* monitor_deposits' "except Exception" prints and sleeps.  The engine meets
\* at most MaxStoreErrors store errors.
SweepRaises(e) ==
    /\ pc[e] = "expire"
    /\ session[e].errors < MaxStoreErrors
    /\ session' = Failed(e, session[e].state)
    /\ expired_addresses' = [expired_addresses EXCEPT ![e] = {}]
    /\ pc' = [pc EXCEPT ![e] = "idle"]
    /\ UNCHANGED <<now, balance, addrs, txs, nextTxId, pending_addresses, cur,
                   credited, txEdits, wdVars>>

\* monitor_deposits: the query for the pending rows raises.  A store error
\* leaves the session's transaction either usable (no connection was made) or
\* invalid (the connection broke, or the store aborted the transaction); an
\* invalid transaction makes every later statement of the session raise
\* until rollback() is called, and monitor_deposits never calls it nor opens
\* another session.  "except Exception" prints and sleeps.
EngineQueryRaises(e) ==
    /\ pc[e] = "query"
    /\ IF session[e].state = "invalid"
       THEN UNCHANGED session
       ELSE /\ session[e].errors < MaxStoreErrors
            /\ \E state \in {"active", "invalid"} : session' = Failed(e, state)
    /\ pc' = [pc EXCEPT ![e] = "idle"]
    /\ UNCHANGED <<now, balance, addrs, txs, nextTxId, expired_addresses,
                   pending_addresses, cur, credited, txEdits, wdVars>>

\* monitor_deposits: db_session.commit() for the matched row raises.  The
\* store has either discarded the transaction or applied it before the
\* connection broke; commit() rolls the session back, so it stays usable, and
\* the rest of the tick is skipped.
EngineCommitRaises(e) ==
    /\ pc[e] = "commit"
    /\ session[e].errors < MaxStoreErrors
    /\ LET a == cur[e].id
           u == addrs[a].user_id IN
        \/ UNCHANGED <<addrs, txs, nextTxId, balance, credited>>
        \/ /\ addrs' = [addrs EXCEPT ![a] = CompleteRow(a, cur[e].completed_at)]
           /\ txs' = [t \in TxIds \cup {nextTxId} |->
                        IF t = nextTxId THEN DepositTransaction(a) ELSE txs[t]]
           /\ nextTxId' = nextTxId + 1
           /\ balance' = [balance EXCEPT ![u] = CreditedBalance(e)]
           /\ credited' = [credited EXCEPT ![a] = @ + 1]
    /\ session' = Failed(e, "active")
    /\ pending_addresses' = [pending_addresses EXCEPT ![e] = {}]
    /\ cur' = [cur EXCEPT ![e] = NoCur]
    /\ pc' = [pc EXCEPT ![e] = "idle"]
    /\ UNCHANGED <<now, expired_addresses, txEdits, wdVars>>

\* Any step of engine e: "while True" with a sleep at the end of each tick,
\* whether the tick failed or not.
EngineStep(e) ==
    \/ SweepQuery(e)
    \/ SweepCommit(e)
    \/ SweepRaises(e)
    \/ EngineQuery(e)
    \/ EngineQueryRaises(e)
    \/ EnginePoll(e)
    \/ EngineCommit(e)
    \/ EngineCommitRaises(e)

\* The poll of row a that finds it funded.
PollMatch(e, a) == EnginePoll(e) /\ pc'[e] = "commit" /\ cur'[e].id = a

\* One engine whose store calls can fail, next to the clock and the route
\* that creates deposit addresses.
NextLive ==
    \/ AdvanceTime
    \/ create_web3_deposit
    \/ SweepQuery(1)
    \/ SweepCommit(1)
    \/ SweepRaises(1)
    \/ EngineQuery(1)
    \/ EngineQueryRaises(1)
    \/ EnginePoll(1)
    \/ EngineCommit(1)
    \/ EngineCommitRaises(1)

\* The event loop keeps running the engine's task, and an address that is
\* funded is seen funded by the polls again and again.
Fairness ==
    /\ WF_vars(EngineStep(1))
    /\ \A a \in 1..MaxAddrs : SF_vars(PollMatch(1, a))

SpecLive == Init /\ [][NextLive]_vars /\ Fairness

\* ------------------------------------------------------------------ claims

Terminal == {"completed", "expired", "cancelled"}

\* C1: however many ticks race on one pending, funded address, at most one
\* deposit Transaction is inserted for it and its amount is credited at most
\* once; a tick that finds the address no longer pending does nothing.
C1_AtMostOneSettlement ==
    \A a \in AddrIds : Cardinality(TxOf(a)) <= 1 /\ credited[a] <= 1

\* C2: of the expiry sweep and the settlement racing on one pending address
\* exactly one wins: no step turns an expired address completed or a completed
\* address expired, and no address is expired with a deposit Transaction or a
\* credit to its name.
C2_ExpireXorComplete ==
    [][\A a \in AddrIds :
        /\ addrs[a].status = "expired" => addrs'[a].status # "completed"
        /\ addrs[a].status = "completed" => addrs'[a].status # "expired"
        /\ addrs'[a].status = "expired" => (TxOf(a)' = {} /\ credited'[a] = 0)]_vars

\* C3: no address is completed at a time now >= expires_at.
C3_NeverCompletedPastDeadline ==
    \A a \in AddrIds :
        addrs[a].status = "completed" => addrs[a].completed_at < addrs[a].expires_at

\* C4: once an address is completed or expired, no step changes its record.
C4_TerminalIsFinal ==
    [][\A a \in AddrIds : addrs[a].status \in Terminal => addrs'[a] = addrs[a]]_vars

\* C5: settlement is all or nothing: an address that is not completed has no
\* Transaction, no credit and no completed-at; a completed address has its
\* completed-at, exactly one Transaction, which is completed, and exactly one
\* credit.
C5_SettlementAllOrNothing ==
    \A a \in AddrIds :
        IF addrs[a].status = "completed"
        THEN /\ addrs[a].completed_at # NONE
             /\ Cardinality(TxOf(a)) = 1
             /\ \A t \in TxOf(a) : txs[t].status = "completed"
             /\ credited[a] = 1
        ELSE /\ addrs[a].completed_at = NONE
             /\ TxOf(a) = {}
             /\ credited[a] = 0

\* C6: at most one Transaction references each deposit address, and that
\* Transaction is completed iff the address is completed.
C6_OneTransactionSameStatus ==
    \A a \in AddrIds :
        /\ Cardinality(TxOf(a)) <= 1
        /\ \A t \in TxOf(a) :
            (txs[t].status = "completed") <=> (addrs[a].status = "completed")

\* A step in which engine e polls one row, and one in which it commits a
\* settlement.
PollStep(e) ==
    /\ pc[e] = "poll"
    /\ pc'[e] = "commit" \/ pending_addresses'[e] # pending_addresses[e]

CommitStep(e) == pc[e] = "commit" /\ pc'[e] # "commit"

\* C7: a polled row goes on to settlement exactly when the observed balance
\* is >= its expected amount, and the settlement records and credits the
\* expected amount, whatever balance was observed.
C7_MatchPolicy ==
    [][\A e \in Engines :
        /\ PollStep(e) =>
            ((pc'[e] = "commit")
                <=> (cur'[e].observed >= addrs[cur'[e].id].amount))
        /\ CommitStep(e) =>
            LET a == cur[e].id
                u == addrs[a].user_id IN
            /\ txs'[nextTxId].deposit_address_id = a
            /\ txs'[nextTxId].amount = addrs[a].amount
            /\ balance'[u] = cur[e].user_balance + addrs[a].amount]_vars

\* An overpaid address is about to be settled.
C7_Witness ==
    \E e \in Engines :
        /\ pc[e] = "commit"
        /\ cur[e].observed > addrs[cur[e].id].amount
        /\ addrs[cur[e].id].amount > 0

\* C8: a settlement is never committed on the strength of a balance query
\* that failed: the step that follows such a query leaves the address, the
\* transactions and the balances as they were.
C8_FailedQueryChangesNothing ==
    [][\A e \in Engines :
        (CommitStep(e) /\ cur[e].failed) =>
            /\ addrs'[cur[e].id] = addrs[cur[e].id]
            /\ txs' = txs
            /\ balance' = balance]_vars

\* C9: when the balance call reports exactly the expected amount before the
\* deadline, the row is settled: the commit leaves the address completed with
\* exactly one Transaction (deposit, completed, of that amount, linked to the
\* address) and the owner's balance higher by exactly that amount.
C9_RoundTrip ==
    [][\A e \in Engines :
        /\ (PollStep(e) /\ ~cur'[e].failed
                /\ cur'[e].observed = addrs[cur'[e].id].amount)
            => pc'[e] = "commit"
        /\ (CommitStep(e) /\ ~cur[e].failed
                /\ cur[e].observed = addrs[cur[e].id].amount
                /\ cur[e].completed_at < addrs[cur[e].id].expires_at) =>
            \A a \in {cur[e].id}, u \in {addrs[cur[e].id].user_id} :
                /\ addrs'[a].status = "completed"
                /\ TxOf(a)' = {nextTxId}
                /\ txs'[nextTxId].user_id = u
                /\ txs'[nextTxId].type = "deposit"
                /\ txs'[nextTxId].amount = addrs[a].amount
                /\ txs'[nextTxId].status = "completed"
                /\ txs'[nextTxId].network = addrs[a].network
                /\ txs'[nextTxId].deposit_address_id = a
                /\ balance'[u] = balance[u] + addrs[a].amount]_vars

\* The round trip is over: a created address of min_deposit is completed
\* before its deadline, one completed deposit of that amount references it,
\* the owner has been credited and the engine sleeps.
C9_Witness ==
    \E a \in AddrIds :
        /\ addrs[a].status = "completed"
        /\ addrs[a].amount = min_deposit
        /\ addrs[a].completed_at < addrs[a].expires_at
        /\ \E t \in TxIds : TxOf(a) = {t} /\ txs[t].amount = min_deposit
        /\ balance[addrs[a].user_id] = min_deposit
        /\ pc[1] = "idle"

\* C10: the commit of a sweep turns to expired only rows that are pending
\* with expires_at in the past, returns the number of rows it turned, and
\* leaves every other row, every Transaction and every balance unchanged.
C10_SweepFrame ==
    [][\A p \in Procs :
        (pc[p] = "expire" /\ pc'[p] # "expire") =>
            /\ \A a \in AddrIds :
                addrs'[a] # addrs[a] =>
                    /\ IsExpiredPending(a)
                    /\ addrs'[a] = [addrs[a] EXCEPT !.status = "expired"]
            /\ SweepReturn(p) =
                Cardinality({a \in AddrIds : addrs'[a].status # addrs[a].status})
            /\ txs' = txs
            /\ balance' = balance]_vars

\* The networks the claims call recognised.
Recognised(network) == network \in {"TRC20", "BEP20", "trc20", "bep20"}

\* A step in which worker w's request handler, standing at pc, returns.
Returns(w, at) == req[w].pc = at /\ req'[w].pc = "idle"

\* The store: everything but the workers' sessions and the histories.
store == <<balance, addrs, txs, nextTxId>>

BroadcastStep(w) == req[w].pc = "check" /\ req'[w].pc = "commit"

\* C13: a withdrawal is debited when it is requested: no broadcast is
\* attempted for a withdrawal whose amount has not already been taken from
\* the balance.
C13_DebitBeforeBroadcast ==
    [][\A w \in Workers : BroadcastStep(w) => debited[req[w].id] >= 1]_vars

\* A withdrawal Transaction that is pending or completed.
Live(t) == t \in TxIds /\ txs[t].status \in {"pending", "completed"}

\* C14: debit and Transaction go together: a withdrawal's amount has been
\* taken from the balance exactly once if its Transaction is pending or
\* completed, and not at all otherwise.
C14_DebitWithTransaction ==
    \A t \in WithdrawalIds : debited[t] = IF Live(t) THEN 1 ELSE 0

\* C15: no balance is ever negative, whatever the interleaving of withdrawal
\* requests and withdrawal processing.
C15_BalanceNeverNegative == \A u \in Users : balance[u] >= 0

\* Two withdrawals of one user, each within the balance and together above
\* it, have both been broadcast and are both about to be debited.
C15_Witness ==
    \E w1 \in Workers, w2 \in Workers :
        /\ req[w1].pc = "commit" /\ req[w1].send.success
        /\ req[w2].pc = "commit" /\ req[w2].send.success
        /\ req[w1].id # req[w2].id
        /\ req[w1].user_id = req[w2].user_id
        /\ req[w1].amount <= balance[req[w1].user_id]
        /\ req[w2].amount <= balance[req[w1].user_id]
        /\ req[w1].amount + req[w2].amount > balance[req[w1].user_id]

\* A step in which worker w writes the outcome of a failed broadcast.
FailureStep(w) ==
    \/ req[w].pc = "commit" /\ ~ req[w].send.success /\ req'[w].pc = "except"
    \/ req[w].pc = "except" /\ req'[w].pc = "idle"

\* C17: when the broadcast fails, the Transaction is left failed with the
\* error in its notes and the balance is the one before the request: the
\* step does not change the balance and nothing of the withdrawal's amount
\* stays taken from it.
C17_FailedBroadcastRestores ==
    [][\A w \in Workers :
        FailureStep(w) =>
            /\ txs'[req[w].id].status = "failed"
            /\ txs'[req[w].id].notes[2] = req[w].send.error
            /\ balance' = balance
            /\ debited'[req[w].id] = 0]_vars

\* A step in which worker w writes the outcome of a successful broadcast.
SuccessStep(w) == req[w].pc = "commit" /\ req[w].send.success /\ req'[w].pc = "idle"

\* C18: when the broadcast succeeds, the Transaction becomes completed with
\* the hash stored, the step leaves the balance as it is, and the amount has
\* been debited exactly once.
C18_SuccessLeavesBalance ==
    [][\A w \in Workers :
        SuccessStep(w) =>
            /\ txs'[req[w].id].status = "completed"
            /\ txs'[req[w].id].transaction_hash = req[w].send.tx_hash
            /\ balance' = balance
            /\ debited'[req[w].id] = 1]_vars

\* C19: a withdrawal Transaction only goes from pending to completed or to
\* failed; a completed or failed one keeps its status and its hash and is
\* neither broadcast nor debited again; and a request that is rejected
\* inserts no Transaction.
C19_WithdrawalStateMachine ==
    [][/\ \A t \in WithdrawalIds :
            /\ txs'[t].status # txs[t].status =>
                /\ txs[t].status = "pending"
                /\ txs'[t].status \in {"completed", "failed"}
            /\ txs[t].status \in {"completed", "failed"} =>
                /\ txs'[t].transaction_hash = txs[t].transaction_hash
                /\ sent'[t] = sent[t]
                /\ debited'[t] = debited[t]
       /\ \A w \in Workers :
            (Returns(w, "create") /\ req'[w].result # "pending") => txs' = txs]_vars

\* C20: every deposit address in the store was created for a recognised
\* network and an amount within [min_deposit, max_deposit], whoever called
\* create_deposit_address.
C20_ServiceValidates ==
    \A a \in AddrIds :
        /\ addrs[a].network \in {"TRC20", "BEP20"}
        /\ min_deposit <= addrs[a].amount
        /\ addrs[a].amount <= max_deposit

\* The balance mutations committed for user u so far: one item for every
\* credit of a deposit address and for every debit of a withdrawal.
Credits(u) ==
    {<<"credit", a, k>> : a \in {x \in AddrIds : addrs[x].user_id = u},
                          k \in 1..MaxAddrs}
Debits(u) ==
    {<<"debit", t, k>> : t \in {x \in WithdrawalIds : txs[x].user_id = u},
                         k \in 1..MaxWithdrawals}
Mutations(u) ==
    {m \in Credits(u) : m[3] <= credited[m[2]]}
        \cup {m \in Debits(u) : m[3] <= debited[m[2]]}

Delta(m) == IF m[1] = "credit" THEN addrs[m[2]].amount ELSE 0 - txs[m[2]].amount

RECURSIVE SumOf(_)
SumOf(S) ==
    IF S = {} THEN 0
    ELSE LET m == CHOOSE x \in S : TRUE IN Delta(m) + SumOf(S \ {m})

\* The balances a serial execution of the committed mutations can end with:
\* all credits and debits applied to the initial balance or, when there were
\* admin corrections, those that come after the last correction applied to
\* the balance it wrote.
SerialBalances(u) ==
    IF adminSets = {}
    THEN {SumOf(Mutations(u))}
    ELSE {v + SumOf(S) : v \in adminSets, S \in SUBSET Mutations(u)}

\* No request and no settlement is between its read and its write.
Quiescent ==
    /\ \A w \in Workers : req[w].pc = "idle"
    /\ \A e \in Engines : pc[e] # "commit"

\* C16: once every operation that has read a balance has written it, the
\* balance is the result of some serial order of the committed credits,
\* debits and admin corrections.
C16_NoLostUpdate ==
    Quiescent => \A u \in Users : balance[u] \in SerialBalances(u)

\* C26: a deposit address has completed-at set exactly when its status is
\* completed; an address swept to expired, or still pending, has none.
C26_CompletedAtIffCompleted ==
    \A a \in AddrIds :
        (addrs[a].completed_at # NONE) <=> (addrs[a].status = "completed")

\* C29: each withdrawal Transaction is broadcast successfully at most once
\* and its amount is taken from the balance at most once.
C29_WithdrawalAtMostOnce ==
    \A t \in WithdrawalIds : sent[t] <= 1 /\ debited[t] <= 1

\* C21: no two deposit addresses hold the same address value, and a call of
\* create_deposit_address on a supported network that stores nothing fails
\* with AddressSpaceExhausted (after its retries), never with anything else.
C21_UniqueWithBoundedRetry ==
    [][/\ \A a, b \in DOMAIN addrs' :
            addrs'[a].address = addrs'[b].address => a = b
       /\ \A w \in Workers :
            (/\ Returns(w, "issue")
             /\ KnownNetwork(req[w].network)
             /\ addrs' = addrs)
            => req'[w].result = "AddressSpaceExhausted"]_vars

\* C23: the status route answers the owner of an existing address with the
\* address's current record, an unknown id with not-found and another user
\* with a denial, and changes nothing in the store.
C23_StatusRead ==
    [][\A w \in Workers :
        Returns(w, "status") =>
            /\ store' = store
            /\ IF req[w].id \notin AddrIds
               THEN req'[w].result.status_code = 404
               ELSE IF addrs[req[w].id].user_id = req[w].user_id
               THEN /\ req'[w].result.status_code = 200
                    /\ req'[w].result.body = get_deposit_address_status(req[w].id)
               ELSE req'[w].result.status_code = 403]_vars

\* A call of create_deposit_address by worker w that stored a row.
Created(w) ==
    /\ Returns(w, "issue")
    /\ Len(addrs') = Len(addrs) + 1

\* C25 as stated: the row a call of create_deposit_address stores is pending,
\* has no completed-at, expires TTL_HOURS after its creation, and holds the
\* user id, the network and the amount of the call as they were passed.
C25_CreatedAsRequested ==
    [][\A w \in Workers :
        Created(w) =>
            LET row == addrs'[Len(addrs')] IN
            /\ row.status = "pending"
            /\ row.completed_at = NONE
            /\ row.created_at = now
            /\ row.expires_at = row.created_at + TTL_HOURS
            /\ row.user_id = req[w].user_id
            /\ row.amount = req[w].amount
            /\ row.network = req[w].network]_vars

\* C25, amended: as above, with the network stored in upper case.
C25_CreatedAsRequestedUpper ==
    [][\A w \in Workers :
        Created(w) =>
            LET row == addrs'[Len(addrs')] IN
            /\ row.status = "pending"
            /\ row.completed_at = NONE
            /\ row.created_at = now
            /\ row.expires_at = row.created_at + TTL_HOURS
            /\ row.user_id = req[w].user_id
            /\ row.amount = req[w].amount
            /\ row.network = Upper(req[w].network)]_vars

\* A row stored for a call that named its network in lower case.
C25_Witness ==
    \E a \in AddrIds, w \in Workers :
        /\ req[w].result = "created"
        /\ req[w].id = a
        /\ addrs[a].network = "BEP20"
        /\ addrs[a].status = "pending"

\* The two networks whose deposits are settled on chain.
OnChain == {"TRC20", "BEP20"}

\* C22: every completed deposit Transaction on an on-chain network references
\* a deposit address that is completed and has the Transaction's amount and
\* network.
C22_CompletedDepositHasAddress ==
    \A t \in TxIds :
        (/\ txs[t].type = "deposit"
         /\ txs[t].status = "completed"
         /\ txs[t].provider \in OnChain)
        => /\ txs[t].deposit_address_id \in AddrIds
           /\ addrs[txs[t].deposit_address_id].status = "completed"
           /\ addrs[txs[t].deposit_address_id].amount = txs[t].amount
           /\ addrs[txs[t].deposit_address_id].network = txs[t].provider

\* C28: a verification request whose hash is already recorded on a deposit
\* Transaction completes no Transaction and leaves the balance as it was.
C28_HashCreditsOnce ==
    [][\A w \in Workers :
        (/\ Returns(w, "verify")
         /\ \E t \in TxIds : /\ txs[t].type = "deposit"
                             /\ txs[t].transaction_hash = req[w].tx_hash)
        => (txs' = txs /\ balance' = balance)]_vars

\* C30: a withdrawal recorded as failed was never broadcast successfully and
\* never had its amount taken from the balance.
C30_FailedMeansNothingSent ==
    \A t \in WithdrawalIds :
        txs[t].status = "failed" => (sent[t] = 0 /\ debited[t] = 0)

\* A step in which a process commits the rows its sweep selected.
SweepStep(p) == pc[p] = "expire" /\ pc'[p] # "expire"

\* A step of the admin correction: nothing but the balance (and its history)
\* is written.
AdminStep == UNCHANGED <<now, addrs, txs, nextTxId, pc, req>>

\* C27: an account's balance changes only in a step that credits a completed
\* deposit of that account, debits a withdrawal of that account or is an admin
\* correction; creating a deposit address, reading a status, sweeping, a poll
\* that finds too little, a rejected withdrawal request and a failed
\* withdrawal processing change no balance.
C27_BalanceFrame ==
    [][/\ \A u \in DOMAIN balance :
            balance'[u] # balance[u] =>
                \/ \E e \in Engines :
                      CommitStep(e) /\ addrs[cur[e].id].user_id = u
                \/ \E w \in Workers : SuccessStep(w) /\ req[w].user_id = u
                \/ \E w \in Workers :
                      /\ Returns(w, "withdraw")
                      /\ req[w].user_id = u
                      /\ nextTxId' # nextTxId
                \/ AdminStep
       /\ \A w \in Workers :
            (\/ Returns(w, "issue")
             \/ Returns(w, "status")
             \/ Returns(w, "create")
             \/ Returns(w, "find")
             \/ req[w].pc = "check" /\ req'[w].pc = "idle"
             \/ FailureStep(w))
            => balance' = balance
       /\ \A p \in Procs : SweepStep(p) => balance' = balance
       /\ \A e \in Engines :
            (PollStep(e) /\ pc'[e] # "commit") => balance' = balance]_vars

\* An address of the second account settled and credited to it, the first
\* account untouched by it and holding a failed withdrawal.
C27_Witness ==
    /\ \E a \in AddrIds :
        /\ addrs[a].user_id = 2
        /\ addrs[a].status = "completed"
        /\ addrs[a].amount = min_deposit
        /\ balance[2] = min_deposit
    /\ \E t \in WithdrawalIds : txs[t].status = "failed" /\ txs[t].user_id = 1
    /\ balance[1] = min_withdrawal

\* C24: under fair scheduling of the engine, with at most MaxStoreErrors
\* failing ticks and funds that stay visible, no deposit address stays
\* pending and unexpired for ever: it is settled by a later tick.
C24_FundedEventuallySettled ==
    \A a \in 1..MaxAddrs : []<>(~ (a \in AddrIds /\ IsLivePending(a)))

====
